---- MODULE Spec2Model ----
(***************************************************************************)
(* Booking lifecycle of the photo-showcase API.                            *)
(*                                                                         *)
(* The repository holds two implementations of the booking operations:     *)
(* the controller functions of controllers/bookingController.js            *)
(* (createBooking, updateBooking, cancelBooking) and the inline route      *)
(* handlers of the bookings router (unnamed/part_006).  Both act on the    *)
(* same Booking table and both are modelled, over one record store.        *)
(*                                                                         *)
(* Reading conventions.  A booking is the record                           *)
(*   client         owner     (userId / clientId / client in the sources)  *)
(*   photographerId assignee  (photographerId / assignedPhotographer)      *)
(*   status         the status string, kept literally as the code spells   *)
(*                  it ("canceled" and "cancelled" are different values)   *)
(*   notes          free text (notes / additionalDetails), a sequence of   *)
(*                  text fragments so that concatenation is visible        *)
(*   location       one of the scheduling fields                           *)
(* A query such as findOne({_id: id, client: u}) is read as "the booking   *)
(* with that id whose client is u"; the caller's identity is req.user.id / *)
(* req.user.userId.  Every write is validated against the status ENUM of   *)
(* models/Booking.js; a write that fails validation changes nothing.       *)
(***************************************************************************)
EXTENDS Integers, Sequences, FiniteSets, TLC

MaxBookings == 1
MaxNotes == 1

Users == {"c1", "p1", "p2", "a1"}

role(u) ==
  IF u = "c1" THEN "client"
  ELSE IF u \in {"p1", "p2"} THEN "photographer"
  ELSE "admin"

NoUser == "none"
Absent == "absent"

\* models/Booking.js: status ENUM and its default
StatusENUM == {"pending", "confirmed", "completed", "cancelled"}
DefaultStatus == "pending"

\* bookingController.updateBooking: validStatuses
validStatuses == {"pending", "confirmed", "completed", "canceled"}

\* Request inputs ---------------------------------------------------------
StatusInputs == {Absent, "pending", "confirmed", "completed", "canceled", "cancelled", "bogus"}
LocationInputs == {Absent, "L1"}
NotesInputs == {Absent, "N1"}
AssigneeInputs == {Absent, "p2"}
DetailsInputs == {Absent, "D1"}

AllPatches ==
  [status : StatusInputs, location : LocationInputs,
   notes : NotesInputs, photographerId : AssigneeInputs]

FieldCount(p) ==
  (IF p.location = Absent THEN 0 ELSE 1) + (IF p.notes = Absent THEN 0 ELSE 1)
    + (IF p.photographerId = Absent THEN 0 ELSE 1)

\* the request bodies tried: the empty body, each status alone, each other
\* field alone, a status with a location, and a body with every field
Patches ==
  {p \in AllPatches :
     \/ FieldCount(p) = 0
     \/ p.status = Absent /\ FieldCount(p) = 1
     \/ p.status = "confirmed" /\ FieldCount(p) = 1 /\ p.location # Absent
     \/ p.status = "completed" /\ FieldCount(p) = 3}

\* bodies of a create request: the scheduling fields are always given
CreateBodies ==
  [status : {Absent, "completed"}, location : {"L0"},
   notes : {Absent}, photographerId : {Absent, "p1"}]

\* the users who create bookings: a client and a photographer
Creators == {"c1", "p1"}

EmptyPatch ==
  [status |-> Absent, location |-> Absent, notes |-> Absent, photographerId |-> Absent]

BookingIds == 1 .. MaxBookings
\* ids a request may name; an id resolves once that booking is created
RequestIds == BookingIds

\* Content: photos and reviews ---------------------------------------------

MaxContent == 1

\* status ENUM of the Photos and Review models; the four moderation fields
ContentStatusENUM == {"pending", "approved", "rejected"}
ModerationFields == {"isVisible", "needsReview", "status", "isModerated"}
ContentTypes == {"photo", "review"}

\* request bodies of the content handlers: each names the fields it gives
ContentBodies ==
  {[text |-> "T1"],
   [isVisible |-> FALSE],
   [needsReview |-> TRUE],
   [status |-> "approved"],
   [status |-> "bogus"],
   [isModerated |-> TRUE],
   [text |-> "T1", isVisible |-> FALSE, needsReview |-> TRUE]}

NoBody == [text |-> "none"]
ContentIds == 1 .. MaxContent

\* contentType and action of a moderation request
RequestTypes == ContentTypes \cup {"user"}
RequestActions == {"delete", "flag", "restore", "approve"}

\* the store calls of moderateContent that may throw: findByPk, the update or
\* destroy, ActivityLog.create
ModerationFaults == {"none", "read", "write", "log"}

NoContentRequest ==
  [op |-> "none", who |-> NoUser, id |-> 0, type |-> "none", action |-> "none",
   body |-> NoBody, fault |-> "none", code |-> 0, logged |-> 0, shown |-> {}]

\* Tokens and about content -----------------------------------------------

\* bearer tokens of a request: three that jwt.verify accepts, one it rejects,
\* and no Authorization header
Tokens == {"t1", "t2", "t3"}
NoToken == "none"
TokenInputs == Tokens \cup {"forged", NoToken}
\* req.token when no middleware has set it
Undefined == "undefined"
AuthVersions == {"first", "second"}
ProtectedRoutes == {"bookings", "admin"}

NoAuthRequest ==
  [op |-> "none", token |-> NoToken, wasOut |-> FALSE, code |-> 0, handled |-> FALSE]

MaxAbout == 2
AboutIds == 1 .. MaxAbout
\* the about requests that may be under way together
AboutRequests == {"q1", "q2"}
\* bodies of the about requests
AboutBodies ==
  {[title |-> "A1"],
   [title |-> "A1", makeActive |-> TRUE],
   [title |-> "A1", makeActive |-> FALSE],
   [makeActive |-> TRUE]}

\* off: a request with makeActive false has written the record since the save
NotSaving == [phase |-> "idle", op |-> "none", id |-> 0, off |-> FALSE]
NoAboutRequest ==
  [op |-> "none", id |-> 0, makeActive |-> FALSE, off |-> FALSE, code |-> 0]

VARIABLES
  bookings,       \* the Booking table: sequence of records, id = index
  last,           \* the last request handled and its response
  pre,            \* the Booking table as it was before that request
  everConfirmed,  \* ids of bookings that have held status "confirmed"
  inflight,       \* accept requests between their read and their write
  updating,       \* an updateBooking request between its read and its write
  content,        \* the Photos and Review tables: sequence of records, id = index
  lastC,          \* the last content request handled and its response
  preC,           \* the content tables as they were before that request
  roundTrip,      \* per content id: the moderation fields before a flag, and
                  \* whether a restore has followed it with no write in between
  authVersion,    \* which definition of auth in middleware/auth.js is in use
  blacklist,      \* the tokens given to addToBlacklist
  loggedOut,      \* the tokens whose logout request answered success
  lastA,          \* the last request that went through auth
  about,          \* the AboutContent table: sequence of records, id = index
  saving,         \* about requests between their save and their deactivation
                  \* of the other records
  lastAb          \* the last about request answered

vars ==
  <<bookings, last, pre, everConfirmed, inflight, updating,
    content, lastC, preC, roundTrip,
    authVersion, blacklist, loggedOut, lastA, about, saving, lastAb>>
bvars == <<bookings, last, pre, everConfirmed, inflight, updating>>
cvars == <<content, lastC, preC, roundTrip>>
avars == <<authVersion, blacklist, loggedOut, lastA>>
abvars == <<about, saving, lastAb>>

NoRequest ==
  [op |-> "none", who |-> NoUser, id |-> 0, req |-> EmptyPatch, code |-> 0, msg |-> ""]
NoBooking ==
  [client |-> NoUser, photographerId |-> NoUser, status |-> DefaultStatus,
   notes |-> <<>>, location |-> Absent]
Idle == [phase |-> "idle", id |-> 0, snap |-> NoBooking, details |-> Absent, code |-> 0]
NoUpdate == [phase |-> "idle", who |-> NoUser, id |-> 0, snap |-> NoBooking, req |-> EmptyPatch]

\* a response whose message the callers tell apart; the other responses are
\* modelled by their status code
Replied(c, m, store) == [code |-> c, msg |-> m, store |-> store]

Response(c, store) == Replied(c, "", store)

\* Record store -----------------------------------------------------------

\* the ENUM check of a write: a status that is written must be in the ENUM
ValidWrite(upd) == upd.status = Absent \/ upd.status \in StatusENUM

\* the record after the fields present in upd are written
ApplyFields(b, upd) ==
  [client |-> b.client,
   photographerId |-> IF upd.photographerId = Absent THEN b.photographerId ELSE upd.photographerId,
   status |-> IF upd.status = Absent THEN b.status ELSE upd.status,
   notes |-> IF upd.notes = Absent THEN b.notes ELSE <<upd.notes>>,
   location |-> IF upd.location = Absent THEN b.location ELSE upd.location]

\* booking.update(upd) / findByIdAndUpdate(id, upd, {runValidators: true})
WriteFields(store, id, upd) == [store EXCEPT ![id] = ApplyFields(store[id], upd)]

\* bookingController.js ---------------------------------------------------

\* createBooking: the photographer named in the body must exist with role
\* photographer (an id that is not given makes the lookup fail: 404 or 500),
\* must not be the caller, and the record is created with status pending
createBookingCodes(u, body) ==
  IF body.photographerId = Absent THEN {404, 500}
  ELSE IF ~(body.photographerId \in Users /\ role(body.photographerId) = "photographer") THEN {404}
  ELSE IF u = body.photographerId THEN {400}
  ELSE {201}

createdBooking(u, body) ==
  [client |-> u,
   photographerId |-> body.photographerId,
   status |-> "pending",
   notes |-> IF body.notes = Absent THEN <<>> ELSE <<body.notes>>,
   location |-> body.location]

\* updateBooking / cancelBooking: the caller is the booking's client, its
\* photographer or an admin
related_anyPhotographer(b, u) ==
  b.client = u \/ role(u) = "photographer" \/ role(u) = "admin"

related(b, u) ==
  b.client = u \/ b.photographerId = u \/ role(u) = "admin"

\* a client branch that forgets to drop the status
updateData_keepStatus(b, u, body) ==
  IF role(u) = "admin" THEN body
  ELSE IF b.client = u THEN [body EXCEPT !.photographerId = Absent]
  ELSE IF b.photographerId = u
    THEN [body EXCEPT !.location = Absent, !.photographerId = Absent]
  ELSE EmptyPatch

\* updateBooking, lines 167-197: the fields the caller may write
updateData(b, u, body) ==
  LET isClient == b.client = u
      isPhotographer == b.photographerId = u
      isAdmin == role(u) = "admin"
  IN  IF isClient /\ ~isAdmin
        THEN [body EXCEPT !.status = Absent, !.photographerId = Absent]
      ELSE IF isPhotographer /\ ~isAdmin
        THEN [body EXCEPT !.location = Absent, !.photographerId = Absent]
      ELSE IF isAdmin THEN body
      ELSE EmptyPatch

\* updateBooking, lines 149-165: the screen of a request for "completed"
completedScreen(b, u, body) ==
  LET isPhotographer == b.photographerId = u
      isAdmin == role(u) = "admin"
  IN  IF body.status # "completed" THEN 200
      ELSE IF ~isPhotographer /\ ~isAdmin THEN 403
      ELSE IF b.status # "confirmed" THEN 400
      ELSE 200

\* updateBooking from line 126 on: every check reads the instance snap that
\* findByPk returned, the write goes to the store as it is by then
updateLoaded(store, snap, u, id, body) ==
  LET upd == updateData(snap, u, body)
  IN  IF ~related(snap, u) THEN Response(403, store)
      ELSE IF body.status # Absent /\ body.status \notin validStatuses
        THEN Response(400, store)
      ELSE IF completedScreen(snap, u, body) # 200
        THEN Response(completedScreen(snap, u, body), store)
      ELSE IF ~ValidWrite(upd) THEN Response(500, store)
      ELSE Response(200, WriteFields(store, id, upd))

\* updateBooking run without interruption
updateBooking(store, u, id, body) ==
  IF id \notin DOMAIN store THEN Response(404, store)
  ELSE updateLoaded(store, store[id], u, id, body)

\* updateBooking with its three awaits on the store: findByPk (line 116),
\* booking.update (line 200) and the findByPk that reads the updated booking
\* back for the response (line 203); each may throw into the catch (500)
StorageFaults == {"none", "read", "write", "reread"}

updateBookingAwaits(store, u, id, body, fault) ==
  LET r == updateBooking(store, u, id, body)
  IN  IF fault = "read" THEN Response(500, store)
      ELSE IF r.code # 200 THEN r
      ELSE IF fault = "write" THEN Response(500, store)
      ELSE IF fault = "reread" THEN Response(500, r.store)
      ELSE r

cancelBooking(store, u, id) ==
  IF id \notin DOMAIN store THEN Response(404, store)
  ELSE
    LET b == store[id]
        isAdmin == role(u) = "admin"
        upd == [EmptyPatch EXCEPT !.status = "canceled"]
    IN  IF ~related(b, u) THEN Response(403, store)
        ELSE IF b.status = "canceled"
          THEN Replied(200, "Booking was already cancelled", store)
        ELSE IF b.status = "completed" /\ ~isAdmin THEN Response(400, store)
        ELSE IF ~ValidWrite(upd) THEN Response(500, store)
        ELSE Replied(200, "Booking cancelled successfully", WriteFields(store, id, upd))

\* bookings router (unnamed/part_006) -------------------------------------

\* findOne / findById of the role-scoped handlers: the booking the caller's
\* role lets the caller see, or none
roleScoped(store, u, id) ==
  IF id \notin DOMAIN store THEN FALSE
  ELSE IF role(u) = "client" THEN store[id].client = u
  ELSE IF role(u) = "photographer" THEN store[id].photographerId = u
  ELSE role(u) = "admin"

\* POST /: Booking.create(req.body) with client set to the caller
postedBooking(u, body) ==
  [client |-> u,
   photographerId |-> IF body.photographerId = Absent THEN NoUser ELSE body.photographerId,
   status |-> IF body.status = Absent THEN DefaultStatus ELSE body.status,
   notes |-> IF body.notes = Absent THEN <<>> ELSE <<body.notes>>,
   location |-> body.location]

\* PATCH /my-bookings/:id
patchMyBooking(store, u, id, body) ==
  IF ~(id \in DOMAIN store /\ store[id].client = u) THEN Response(404, store)
  ELSE IF body.status # Absent /\ body.status # "cancelled" THEN Response(400, store)
  ELSE IF ~ValidWrite(body) THEN Response(400, store)
  ELSE Response(200, WriteFields(store, id, body))

\* PUT /:id, lines 746-777: the per-role screen of the request status
putStatusScreen(u, body) ==
  IF role(u) = "client"
    THEN body.status = Absent \/ body.status = "cancelled"
  ELSE IF role(u) = "photographer"
    THEN body.status = Absent \/ body.status \in {"confirmed", "completed"}
  ELSE TRUE

\* PUT /:id, lines 767-773: a photographer's body keeps status and
\* additionalDetails only
putBody(u, body) ==
  IF role(u) = "photographer"
    THEN [body EXCEPT !.location = Absent, !.photographerId = Absent]
  ELSE body

putBooking(store, u, id, body) ==
  IF ~putStatusScreen(u, body) THEN Response(400, store)
  ELSE IF ~roleScoped(store, u, id) THEN Response(404, store)
  ELSE IF ~ValidWrite(putBody(u, body)) THEN Response(400, store)
  ELSE Response(200, WriteFields(store, id, putBody(u, body)))

\* DELETE /:id
deleteBooking(store, u, id) ==
  IF ~roleScoped(store, u, id) THEN Response(404, store)
  ELSE Replied(200, "Booking cancelled successfully",
               WriteFields(store, id, [EmptyPatch EXCEPT !.status = "cancelled"]))

\* an assign that leaves a booking alone once it has an assignee
assignPhotographer_unassignedOnly(store, u, id, body) ==
  IF role(u) # "admin" THEN Response(401, store)
  ELSE IF id \notin DOMAIN store THEN Response(404, store)
  ELSE IF store[id].photographerId # NoUser THEN Response(200, store)
  ELSE Response(200,
         [store EXCEPT ![id].photographerId =
                          IF body.photographerId = Absent THEN NoUser ELSE body.photographerId,
                       ![id].status = "confirmed"])

\* PATCH /:id/assign (adminOnly)
assignPhotographer(store, u, id, body) ==
  IF role(u) # "admin" THEN Response(401, store)
  ELSE IF id \notin DOMAIN store THEN Response(404, store)
  ELSE Response(200,
         [store EXCEPT ![id].photographerId =
                          IF body.photographerId = Absent THEN NoUser ELSE body.photographerId,
                       ![id].status = "confirmed"])

\* PATCH /:id/status (adminOnly)
setStatus(store, u, id, body) ==
  IF role(u) # "admin" THEN Response(401, store)
  ELSE IF id \notin DOMAIN store THEN Response(404, store)
  ELSE IF ~ValidWrite(body) THEN Response(500, store)
  ELSE Response(200, [store EXCEPT ![id].status = body.status])

\* PATCH /:id/accept, lines 876-889, on the booking instance snap that
\* findByPk returned: the check, the assignments and save(), which writes
\* the changed fields of the instance
acceptNotes(snap, details) == Append(snap.notes, details)

\* an accept that reassigns without looking
acceptLoaded_reassign(store, snap, u, id, details) ==
  Response(200,
    [store EXCEPT ![id].photographerId = u,
                  ![id].status = "confirmed",
                  ![id].notes = IF details = Absent THEN store[id].notes
                                ELSE acceptNotes(snap, details)])

acceptLoaded(store, snap, u, id, details) ==
  IF snap.photographerId # NoUser THEN Response(400, store)
  ELSE Response(200,
         [store EXCEPT ![id].photographerId = u,
                       ![id].status = "confirmed",
                       ![id].notes = IF details = Absent THEN store[id].notes
                                     ELSE acceptNotes(snap, details)])

\* PATCH /:id/accept (photographerOrAdmin), run without interruption
acceptBooking(store, u, id, details) ==
  IF role(u) \notin {"photographer", "admin"} THEN Response(401, store)
  ELSE IF id \notin DOMAIN store THEN Response(404, store)
  ELSE acceptLoaded(store, store[id], u, id, details)

\* State machine ----------------------------------------------------------

Fresh ==
  /\ bookings = <<>>
  /\ last = NoRequest
  /\ pre = <<>>
  /\ everConfirmed = {}
  /\ inflight = [u \in Users |-> Idle]
  /\ updating = NoUpdate
  /\ content = <<>>
  /\ lastC = NoContentRequest
  /\ preC = <<>>
  /\ roundTrip = <<>>
  /\ blacklist = {}
  /\ loggedOut = {}
  /\ lastA = NoAuthRequest
  /\ about = <<>>
  /\ saving = [q \in AboutRequests |-> NotSaving]
  /\ lastAb = NoAboutRequest

Init == Fresh /\ authVersion = "first"

Confirmed(store) == {i \in DOMAIN store : store[i].status = "confirmed"}

\* one request handled from its read to its response
Handled(op, u, id, req, r) ==
  /\ bookings' = r.store
  /\ last' = [op |-> op, who |-> u, id |-> id, req |-> req, code |-> r.code,
              msg |-> r.msg]
  /\ pre' = bookings
  /\ everConfirmed' = everConfirmed \cup Confirmed(r.store)
  /\ UNCHANGED <<cvars, avars, abvars>>

CreateBooking ==
  \E u \in Creators, body \in CreateBodies, c \in {201, 400, 404, 500} :
    /\ c \in createBookingCodes(u, body)
    /\ c = 201 => Len(bookings) < MaxBookings
    /\ Handled("createBooking", u, IF c = 201 THEN Len(bookings) + 1 ELSE 0, body,
               Response(c, IF c = 201 THEN Append(bookings, createdBooking(u, body))
                           ELSE bookings))
    /\ UNCHANGED <<inflight, updating>>

PostBooking ==
  \E u \in Creators, body \in CreateBodies :
    /\ Len(bookings) < MaxBookings
    /\ Handled("postBooking", u, Len(bookings) + 1, body,
               Response(201, Append(bookings, postedBooking(u, body))))
    /\ UNCHANGED <<inflight, updating>>

UpdateBooking ==
  \E u \in Users, id \in RequestIds, body \in Patches :
    /\ Handled("updateBooking", u, id, body, updateBooking(bookings, u, id, body))
    /\ UNCHANGED <<inflight, updating>>

CancelBooking ==
  \E u \in Users, id \in RequestIds :
    /\ Handled("cancelBooking", u, id, EmptyPatch, cancelBooking(bookings, u, id))
    /\ UNCHANGED <<inflight, updating>>

PatchMyBooking ==
  \E u \in Users, id \in RequestIds, body \in Patches :
    /\ Handled("patchMyBooking", u, id, body, patchMyBooking(bookings, u, id, body))
    /\ UNCHANGED <<inflight, updating>>

PutBooking ==
  \E u \in Users, id \in RequestIds, body \in Patches :
    /\ Handled("putBooking", u, id, body, putBooking(bookings, u, id, body))
    /\ UNCHANGED <<inflight, updating>>

DeleteBooking ==
  \E u \in Users, id \in RequestIds :
    /\ Handled("deleteBooking", u, id, EmptyPatch, deleteBooking(bookings, u, id))
    /\ UNCHANGED <<inflight, updating>>

AssignPhotographer ==
  \E u \in Users, id \in RequestIds, p \in {Absent, "p1", "p2"} :
    LET body == [EmptyPatch EXCEPT !.photographerId = p]
    IN  /\ Handled("assign", u, id, body, assignPhotographer(bookings, u, id, body))
        /\ UNCHANGED <<inflight, updating>>

SetStatus ==
  \E u \in Users, id \in RequestIds, s \in StatusInputs \ {Absent} :
    LET body == [EmptyPatch EXCEPT !.status = s]
    IN  /\ Handled("setStatus", u, id, body, setStatus(bookings, u, id, body))
        /\ UNCHANGED <<inflight, updating>>

\* the text of a booking grows with every accepted note: bounded here
NotesRoom(b, details) == details = Absent \/ Len(b.notes) < MaxNotes

AcceptBooking ==
  \E u \in Users, id \in RequestIds, d \in DetailsInputs :
    /\ id \in DOMAIN bookings => NotesRoom(bookings[id], d)
    /\ Handled("accept", u, id, [EmptyPatch EXCEPT !.notes = d],
               acceptBooking(bookings, u, id, d))
    /\ UNCHANGED <<inflight, updating>>

Next ==
  \/ CreateBooking
  \/ PostBooking
  \/ UpdateBooking
  \/ CancelBooking
  \/ PatchMyBooking
  \/ PutBooking
  \/ DeleteBooking
  \/ AssignPhotographer
  \/ SetStatus
  \/ AcceptBooking

Spec == Init /\ [][Next]_vars

\* accept with its read and its write as separate steps: the handler awaits
\* findByPk, and other requests run before it goes on
AcceptLoad ==
  \E u \in Users, id \in RequestIds, d \in DetailsInputs :
    /\ inflight[u].phase # "loaded"
    /\ IF role(u) \in {"photographer", "admin"} /\ id \in DOMAIN bookings
         THEN /\ NotesRoom(bookings[id], d)
              /\ inflight' = [inflight EXCEPT ![u] =
                   [phase |-> "loaded", id |-> id, snap |-> bookings[id],
                    details |-> d, code |-> 0]]
              /\ UNCHANGED <<bookings, last, pre, everConfirmed, updating, cvars, avars, abvars>>
         ELSE /\ Handled("accept", u, id, [EmptyPatch EXCEPT !.notes = d],
                         acceptBooking(bookings, u, id, d))
              /\ UNCHANGED <<inflight, updating>>

AcceptSave ==
  \E u \in Users :
    /\ inflight[u].phase = "loaded"
    /\ LET f == inflight[u]
           r == acceptLoaded(bookings, f.snap, u, f.id, f.details)
       IN  /\ Handled("accept", u, f.id, [EmptyPatch EXCEPT !.notes = f.details], r)
           /\ inflight' = [inflight EXCEPT ![u] =
                [f EXCEPT !.phase = "done", !.code = r.code]]
           /\ UNCHANGED updating

NextConc ==
  \/ CreateBooking
  \/ PostBooking
  \/ AcceptLoad
  \/ AcceptSave

SpecConc == Init /\ [][NextConc]_vars

\* updateBooking with its read and its write as separate steps: the handler
\* awaits findByPk, and other requests run before it goes on. One update is
\* followed through its two steps; the requests tried ask for a status
RacePatches == {p \in Patches : FieldCount(p) = 0 /\ p.status \in {"confirmed", "completed"}}

UpdateLoad ==
  \E u \in Users, id \in RequestIds, body \in RacePatches :
    /\ updating.phase = "idle"
    /\ IF id \in DOMAIN bookings
         THEN /\ updating' = [phase |-> "loaded", who |-> u, id |-> id,
                              snap |-> bookings[id], req |-> body]
              /\ UNCHANGED <<bookings, last, pre, everConfirmed, inflight, cvars, avars, abvars>>
         ELSE /\ Handled("updateBooking", u, id, body, updateBooking(bookings, u, id, body))
              /\ UNCHANGED <<inflight, updating>>

UpdateSave ==
  /\ updating.phase = "loaded"
  /\ Handled("updateBooking", updating.who, updating.id, updating.req,
             updateLoaded(bookings, updating.snap, updating.who, updating.id, updating.req))
  /\ updating' = NoUpdate
  /\ UNCHANGED inflight

NextRace ==
  \/ CreateBooking
  \/ PostBooking
  \/ AcceptBooking
  \/ CancelBooking
  \/ DeleteBooking
  \/ UpdateLoad
  \/ UpdateSave

SpecRace == Init /\ [][NextRace]_vars

\* updateBooking over a store whose calls may fail
UpdateBookingAwaits ==
  \E u \in Users, id \in RequestIds, body \in Patches, fault \in StorageFaults :
    /\ Handled("updateBooking", u, id, body,
               updateBookingAwaits(bookings, u, id, body, fault))
    /\ UNCHANGED <<inflight, updating>>

NextFault ==
  \/ CreateBooking
  \/ PostBooking
  \/ AcceptBooking
  \/ UpdateBookingAwaits

SpecFault == Init /\ [][NextFault]_vars

\* Content handlers -------------------------------------------------------

\* a destroyed row: findByPk no longer finds it
Destroyed ==
  [kind |-> "destroyed", owner |-> NoUser, text |-> "none", isVisible |-> FALSE,
   needsReview |-> FALSE, status |-> "pending", isModerated |-> FALSE]

\* a row of the Photos or Review model with the models' defaults
defaults(kind, u) ==
  [kind |-> kind, owner |-> u, text |-> "T0", isVisible |-> TRUE,
   needsReview |-> FALSE, status |-> "pending", isModerated |-> FALSE]

\* findByPk on the table of the given content type
found(store, id, type) == id \in DOMAIN store /\ store[id].kind = type

\* the ENUM check of a write
ValidContentWrite(body) ==
  "status" \in DOMAIN body => body.status \in ContentStatusENUM

\* instance.update(body) / create({...body}): the fields the body gives, among
\* the model's attributes other than the key and the owner, are written
written(rec, body) ==
  [f \in DOMAIN rec |->
     IF f \in DOMAIN body /\ f \notin {"kind", "owner"} THEN body[f] ELSE rec[f]]

\* shown: the ids of the rows whose content the response carries
ContentReplied(c, store, wrote, logged) ==
  [code |-> c, store |-> store, wrote |-> wrote, logged |-> logged, shown |-> {}]

Shown(c, store, ids) ==
  [code |-> c, store |-> store, wrote |-> FALSE, logged |-> 0, shown |-> ids]

\* photoController.createPhoto: title, category and the file are required; the
\* row is created from the fields the handler names
createPhoto(store, u, complete) ==
  IF ~complete THEN ContentReplied(400, store, FALSE, 0)
  ELSE ContentReplied(201, Append(store, defaults("photo", u)), TRUE, 0)

\* reviewController.createReview: the body is spread into the row
createReview(store, u, body) ==
  IF ~ValidContentWrite(body) THEN ContentReplied(500, store, FALSE, 0)
  ELSE ContentReplied(201, Append(store, written(defaults("review", u), body)), TRUE, 0)

\* photoController.updatePhoto / reviewController.updateReview
ownerUpdate(store, u, id, type, body) ==
  IF ~found(store, id, type) THEN ContentReplied(404, store, FALSE, 0)
  ELSE IF store[id].owner # u THEN ContentReplied(403, store, FALSE, 0)
  ELSE IF ~ValidContentWrite(body) THEN ContentReplied(500, store, FALSE, 0)
  ELSE ContentReplied(200, [store EXCEPT ![id] = written(store[id], body)], TRUE, 0)

\* photoController.deletePhoto / reviewController.deleteReview
ownerDelete(store, u, id, type) ==
  IF ~found(store, id, type) THEN ContentReplied(404, store, FALSE, 0)
  ELSE IF store[id].owner # u THEN ContentReplied(403, store, FALSE, 0)
  ELSE ContentReplied(200, [store EXCEPT ![id] = Destroyed], TRUE, 0)

\* a flag that hides the content and leaves its status and isModerated
flagUpdate_hideOnly == [needsReview |-> TRUE, isVisible |-> FALSE]

\* moderateContent, lines 84-89 and 111-116
flagUpdate ==
  [needsReview |-> TRUE, isVisible |-> FALSE, status |-> "pending", isModerated |-> FALSE]

\* moderateContent, lines 91-96 and 118-123
restoreUpdate ==
  [needsReview |-> FALSE, isVisible |-> TRUE, status |-> "approved", isModerated |-> TRUE]

\* a flag that toggles the visibility and the review mark
moderated_toggle(rec, action) ==
  IF action = "delete" THEN Destroyed
  ELSE IF action = "flag"
    THEN written(rec, [needsReview |-> ~rec.needsReview, isVisible |-> ~rec.isVisible,
                       status |-> "pending", isModerated |-> FALSE])
  ELSE written(rec, restoreUpdate)

\* the row after the action's one write
moderated(rec, action) ==
  IF action = "delete" THEN Destroyed
  ELSE IF action = "flag" THEN written(rec, flagUpdate)
  ELSE written(rec, restoreUpdate)

\* a moderation that looks the content up before it validates the action
moderateContent_lookupFirst(store, u, id, type, action, fault) ==
  IF role(u) # "admin" THEN ContentReplied(403, store, FALSE, 0)
  ELSE IF type \notin ContentTypes THEN ContentReplied(400, store, FALSE, 0)
  ELSE IF fault = "read" THEN ContentReplied(500, store, FALSE, 0)
  ELSE IF ~found(store, id, type) THEN ContentReplied(404, store, FALSE, 0)
  ELSE IF action \notin {"delete", "flag", "restore"} THEN ContentReplied(400, store, FALSE, 0)
  ELSE IF fault = "write" THEN ContentReplied(500, store, FALSE, 0)
  ELSE LET after == [store EXCEPT ![id] = moderated(store[id], action)]
       IN  IF fault = "log" THEN ContentReplied(500, after, TRUE, 0)
           ELSE ContentReplied(200, after, TRUE, 1)

\* POST /api/admin/moderate (auth, isAdmin): moderateContent
moderateContent(store, u, id, type, action, fault) ==
  IF role(u) # "admin" THEN ContentReplied(403, store, FALSE, 0)
  ELSE IF action \notin {"delete", "flag", "restore"} THEN ContentReplied(400, store, FALSE, 0)
  ELSE IF type \notin ContentTypes THEN ContentReplied(400, store, FALSE, 0)
  ELSE IF fault = "read" THEN ContentReplied(500, store, FALSE, 0)
  ELSE IF ~found(store, id, type) THEN ContentReplied(404, store, FALSE, 0)
  ELSE IF fault = "write" THEN ContentReplied(500, store, FALSE, 0)
  ELSE LET after == [store EXCEPT ![id] = moderated(store[id], action)]
       IN  IF fault = "log" THEN ContentReplied(500, after, TRUE, 0)
           ELSE ContentReplied(200, after, TRUE, 1)

\* adminController.updateContentStatus: the body's updates are written as given
updateContentStatus(store, u, id, type, updates) ==
  IF role(u) # "admin" THEN ContentReplied(403, store, FALSE, 0)
  ELSE IF type \notin ContentTypes THEN ContentReplied(400, store, FALSE, 0)
  ELSE IF ~found(store, id, type) THEN ContentReplied(404, store, FALSE, 0)
  ELSE IF ~ValidContentWrite(updates) THEN ContentReplied(500, store, FALSE, 0)
  ELSE ContentReplied(200, [store EXCEPT ![id] = written(store[id], updates)], TRUE, 1)

\* Reads. The table holds the rows under moderation; a review in it belongs
\* to a visible photo outside it, so a listing of photos embeds the review and
\* getPhotoReviews of that photo finds it.

\* req.user of a read: the routes have no auth middleware of their own, the
\* handlers test req.user and its role
Viewers == {NoUser, "c1", "a1"}
isAdminViewer(v) == v # NoUser /\ role(v) = "admin"

photos(store) == {i \in DOMAIN store : store[i].kind = "photo"}
reviews(store) == {i \in DOMAIN store : store[i].kind = "review"}

\* photoController.getAllPhotos, lines 98-162: where isVisible for callers other
\* than admin, the reviews of the listed photos included as they are
getAllPhotos(store, v) ==
  Shown(200, store,
        {i \in photos(store) : isAdminViewer(v) \/ store[i].isVisible} \cup reviews(store))

\* photoController.getPhotoById, lines 164-218
getPhotoById(store, v, id) ==
  IF ~found(store, id, "photo") THEN Shown(404, store, {})
  ELSE IF ~store[id].isVisible /\ ~isAdminViewer(v) THEN Shown(403, store, {})
  ELSE Shown(200, store, {id})

\* photoController.getPhotosByCategory, lines 288-308
getPhotosByCategory(store, v) ==
  Shown(200, store,
        {i \in photos(store) : isAdminViewer(v) \/ store[i].isVisible} \cup reviews(store))

\* the second definitions in photoController.js, lines 414-583
getAllPhotos_2(store, v) == Shown(200, store, photos(store) \cup reviews(store))

getPhotoById_2(store, v, id) ==
  IF ~found(store, id, "photo") THEN Shown(404, store, {})
  ELSE Shown(200, store, {id})

getPhotosByCategory_2(store, v) == Shown(200, store, photos(store) \cup reviews(store))

\* reviewController.getPhotoReviews: every review of the photo
getPhotoReviews(store, v) == Shown(200, store, reviews(store))

\* the moderation fields of a row
Quad(rec) == <<rec.isVisible, rec.needsReview, rec.status, rec.isModerated>>

NoTrip == [phase |-> "none", from |-> Quad(Destroyed)]

\* one content request handled from its read to its response
HandledC(op, u, id, type, action, body, fault, r) ==
  /\ content' = r.store
  /\ lastC' = [op |-> op, who |-> u, id |-> id, type |-> type, action |-> action,
               body |-> body, fault |-> fault, code |-> r.code, logged |-> r.logged,
               shown |-> r.shown]
  /\ preC' = content
  /\ roundTrip' =
       [i \in DOMAIN r.store |->
          IF i \notin DOMAIN content THEN NoTrip
          ELSE IF ~(i = id /\ r.wrote) THEN roundTrip[i]
          ELSE IF op = "moderateContent" /\ action = "flag"
            THEN [phase |-> "flagged", from |-> Quad(content[i])]
          ELSE IF op = "moderateContent" /\ action = "restore"
                  /\ roundTrip[i].phase = "flagged"
            THEN [roundTrip[i] EXCEPT !.phase = "restored"]
          ELSE NoTrip]
  /\ UNCHANGED <<bvars, avars, abvars>>

CreatePhoto ==
  \E u \in {"p1"}, complete \in BOOLEAN :
    /\ complete => Len(content) < MaxContent
    /\ HandledC("createPhoto", u, Len(content) + 1, "photo", "none", NoBody, "none",
                createPhoto(content, u, complete))

CreateReview ==
  \E u \in {"c1"}, body \in ContentBodies :
    /\ Len(content) < MaxContent
    /\ HandledC("createReview", u, Len(content) + 1, "review", "none", body, "none",
                createReview(content, u, body))

UpdatePhoto ==
  \E u \in {"p1", "p2"}, id \in ContentIds, body \in ContentBodies :
    HandledC("updatePhoto", u, id, "photo", "none", body, "none",
             ownerUpdate(content, u, id, "photo", body))

UpdateReview ==
  \E u \in {"c1", "p1"}, id \in ContentIds, body \in ContentBodies :
    HandledC("updateReview", u, id, "review", "none", body, "none",
             ownerUpdate(content, u, id, "review", body))

DeletePhoto ==
  \E u \in {"p1", "p2"}, id \in ContentIds :
    HandledC("deletePhoto", u, id, "photo", "none", NoBody, "none",
             ownerDelete(content, u, id, "photo"))

DeleteReview ==
  \E u \in {"c1", "p1"}, id \in ContentIds :
    HandledC("deleteReview", u, id, "review", "none", NoBody, "none",
             ownerDelete(content, u, id, "review"))

ModerateContent ==
  \E u \in {"a1", "p1"}, id \in ContentIds, type \in RequestTypes,
     action \in RequestActions, fault \in ModerationFaults :
    HandledC("moderateContent", u, id, type, action, NoBody, fault,
             moderateContent(content, u, id, type, action, fault))

UpdateContentStatus ==
  \E u \in {"a1", "p1"}, id \in ContentIds, type \in RequestTypes,
     updates \in ContentBodies :
    HandledC("updateContentStatus", u, id, type, "none", updates, "none",
             updateContentStatus(content, u, id, type, updates))

GetAllPhotos ==
  \E v \in Viewers, second \in BOOLEAN :
    HandledC(IF second THEN "getAllPhotos_2" ELSE "getAllPhotos", v, 0, "photo",
             "none", NoBody, "none",
             IF second THEN getAllPhotos_2(content, v) ELSE getAllPhotos(content, v))

GetPhotoById ==
  \E v \in Viewers, id \in ContentIds, second \in BOOLEAN :
    HandledC(IF second THEN "getPhotoById_2" ELSE "getPhotoById", v, id, "photo",
             "none", NoBody, "none",
             IF second THEN getPhotoById_2(content, v, id) ELSE getPhotoById(content, v, id))

GetPhotosByCategory ==
  \E v \in Viewers, second \in BOOLEAN :
    HandledC(IF second THEN "getPhotosByCategory_2" ELSE "getPhotosByCategory", v, 0,
             "photo", "none", NoBody, "none",
             IF second THEN getPhotosByCategory_2(content, v)
             ELSE getPhotosByCategory(content, v))

GetPhotoReviews ==
  \E v \in Viewers :
    HandledC("getPhotoReviews", v, 0, "review", "none", NoBody, "none",
             getPhotoReviews(content, v))

NextMod ==
  \/ CreatePhoto
  \/ CreateReview
  \/ UpdatePhoto
  \/ UpdateReview
  \/ DeletePhoto
  \/ DeleteReview
  \/ ModerateContent
  \/ UpdateContentStatus
  \/ GetAllPhotos
  \/ GetPhotoById
  \/ GetPhotosByCategory
  \/ GetPhotoReviews

SpecMod == Init /\ [][NextMod]_vars

\* Authentication ---------------------------------------------------------

\* utils/tokenBlacklist.js is imported by the middleware and the logout route:
\* a set of tokens, added to by addToBlacklist and tested by isTokenBlacklisted
addToBlacklist(list, token) == list \cup {token}
isTokenBlacklisted(list, token) == token \in list

\* jwt.verify(token, JWT_SECRET)
verify(token) == token \in Tokens

\* what a middleware leaves: 401, or next() with req.token
Rejected == [code |-> 401, token |-> Undefined]
Passed(reqToken) == [code |-> 0, token |-> reqToken]

\* middleware/auth.js, lines 5-27
auth(list, token) ==
  IF token = NoToken THEN Rejected
  ELSE IF isTokenBlacklisted(list, token) THEN Rejected
  ELSE IF ~verify(token) THEN Rejected
  ELSE Passed(token)

\* middleware/auth.js, lines 72-92: the second definition reads no blacklist
\* and sets no req.token
auth_2(list, token) ==
  IF token = NoToken THEN Rejected
  ELSE IF ~verify(token) THEN Rejected
  ELSE Passed(Undefined)

deployed(list, token) ==
  IF authVersion = "first" THEN auth(list, token) ELSE auth_2(list, token)

\* POST /api/auth/logout (auth): addToBlacklist(req.token)
Logout ==
  \E token \in TokenInputs :
    LET a == deployed(blacklist, token)
    IN  /\ blacklist' = IF a.code = 401 THEN blacklist
                        ELSE addToBlacklist(blacklist, a.token)
        /\ loggedOut' = IF a.code = 401 THEN loggedOut ELSE loggedOut \cup {token}
        /\ lastA' = [op |-> "logout", token |-> token, wasOut |-> token \in loggedOut,
                     code |-> IF a.code = 401 THEN 401 ELSE 200,
                     handled |-> a.code # 401]
        /\ UNCHANGED <<authVersion, bvars, cvars, abvars>>

\* a request to any other route behind auth
ProtectedRequest ==
  \E token \in TokenInputs, route \in ProtectedRoutes :
    LET a == deployed(blacklist, token)
    IN  /\ lastA' = [op |-> route, token |-> token, wasOut |-> token \in loggedOut,
                     code |-> IF a.code = 401 THEN 401 ELSE 200,
                     handled |-> a.code # 401]
        /\ UNCHANGED <<authVersion, blacklist, loggedOut, bvars, cvars, abvars>>

InitAuth == Fresh /\ authVersion \in AuthVersions

NextAuth ==
  \/ Logout
  \/ ProtectedRequest

SpecAuth == InitAuth /\ [][NextAuth]_vars

\* About content ----------------------------------------------------------

\* AboutContent.update({isActive: false}, {where: {id: {[Op.ne]: id}}})
deactivateOthers(table, id) ==
  [i \in DOMAIN table |-> IF i = id THEN table[i] ELSE [table[i] EXCEPT !.isActive = FALSE]]

AboutAnswered(op, id, makeActive, off, code) ==
  lastAb' = [op |-> op, id |-> id, makeActive |-> makeActive, off |-> off, code |-> code]

Saved(op, id) == [phase |-> "saved", op |-> op, id |-> id, off |-> FALSE]

\* the requests under way whose record a write of isActive = false has reached
switchedOff(pending, id) ==
  [q \in AboutRequests |->
     IF pending[q].phase = "saved" /\ pending[q].id = id
       THEN [pending[q] EXCEPT !.off = TRUE] ELSE pending[q]]

\* POST /api/about (auth, adminOnly) up to AboutContent.create: makeActive
\* defaults to true
PostAboutSave ==
  \E q \in AboutRequests, body \in AboutBodies :
    LET makeActive == IF "makeActive" \in DOMAIN body THEN body.makeActive ELSE TRUE
        id == Len(about) + 1
    IN  /\ saving[q].phase = "idle"
        /\ IF "title" \notin DOMAIN body
             THEN /\ AboutAnswered("post", 0, makeActive, FALSE, 400)
                  /\ UNCHANGED <<about, saving>>
             ELSE /\ Len(about) < MaxAbout
                  /\ about' = Append(about, [title |-> body.title, isActive |-> makeActive])
                  /\ IF makeActive
                       THEN /\ saving' = [saving EXCEPT ![q] = Saved("post", id)]
                            /\ UNCHANGED lastAb
                       ELSE /\ AboutAnswered("post", id, FALSE, FALSE, 201)
                            /\ UNCHANGED saving
        /\ UNCHANGED <<bvars, cvars, avars>>

\* PATCH /api/about/:id (auth, adminOnly) up to aboutContent.save()
PatchAboutSave ==
  \E q \in AboutRequests, id \in AboutIds, body \in AboutBodies :
    LET given == "makeActive" \in DOMAIN body
        makeActive == IF given THEN body.makeActive ELSE FALSE
    IN  /\ saving[q].phase = "idle"
        /\ IF id \notin DOMAIN about
             THEN /\ AboutAnswered("patch", id, makeActive, FALSE, 404)
                  /\ UNCHANGED <<about, saving>>
             ELSE /\ about' = [about EXCEPT
                                 ![id].title = IF "title" \in DOMAIN body THEN body.title ELSE @,
                                 ![id].isActive = IF given THEN body.makeActive ELSE @]
                  /\ IF makeActive
                       THEN /\ saving' = [saving EXCEPT ![q] = Saved("patch", id)]
                            /\ UNCHANGED lastAb
                       ELSE /\ AboutAnswered("patch", id, FALSE, FALSE, 200)
                            /\ saving' = IF given THEN switchedOff(saving, id) ELSE saving
        /\ UNCHANGED <<bvars, cvars, avars>>

\* the rest of both handlers: deactivate every other record and answer
AboutDeactivate ==
  \E q \in AboutRequests :
    /\ saving[q].phase = "saved"
    /\ about' = deactivateOthers(about, saving[q].id)
    /\ AboutAnswered(saving[q].op, saving[q].id, TRUE, saving[q].off,
                     IF saving[q].op = "post" THEN 201 ELSE 200)
    /\ saving' = [saving EXCEPT ![q] = NotSaving]
    /\ UNCHANGED <<bvars, cvars, avars>>

NextAbout ==
  \/ PostAboutSave
  \/ PatchAboutSave
  \/ AboutDeactivate

SpecAbout == Init /\ [][NextAbout]_vars

\* Properties -------------------------------------------------------------

\* the last request named a booking that existed when it arrived
Resolved == last.id \in DOMAIN pre
Before == pre[last.id]
After == bookings[last.id]

\* the operations open to callers who are not admin
NonAdminOps ==
  {"updateBooking", "putBooking", "patchMyBooking", "accept",
   "cancelBooking", "deleteBooking"}
UpdateOps == {"updateBooking", "putBooking"}
Terminal == {"completed", "cancelled", "canceled"}

\* C1: a booking whose status is completed has held status confirmed in an
\* earlier state, whatever sequence of booking operations ran
C1_CompletedWasConfirmed ==
  \A i \in DOMAIN bookings :
    bookings[i].status = "completed" => i \in everConfirmed

\* C2: accept succeeds exactly when the booking has no photographer, and then
\* makes the caller its photographer and the status confirmed; on a booking
\* that has a photographer it answers 400 and photographerId, status and
\* notes stay as they were
C2_AcceptContract ==
  (last.op = "accept" /\ Resolved /\ role(last.who) \in {"photographer", "admin"}) =>
    /\ (last.code = 200) <=> (Before.photographerId = NoUser)
    /\ last.code = 200 =>
         After.photographerId = last.who /\ After.status = "confirmed"
    /\ Before.photographerId # NoUser =>
         /\ last.code = 400
         /\ After.photographerId = Before.photographerId
         /\ After.status = Before.status
         /\ After.notes = Before.notes

C2_Witness ==
  /\ last.op = "accept" /\ Resolved
  /\ role(last.who) = "photographer"
  /\ Before.photographerId \notin {NoUser, last.who}
  /\ last.code = 400

\* C3: of two accept requests on one unassigned booking that both read it
\* before either writes, at most one answers 200, the other answers 400, and
\* the booking's photographer is the one whose accept answered 200
C3_OneAcceptWins ==
  \A u, v \in Users :
    (/\ u # v
     /\ inflight[u].phase = "done" /\ inflight[v].phase = "done"
     /\ inflight[u].id = inflight[v].id
     /\ inflight[u].snap.photographerId = NoUser
     /\ inflight[v].snap.photographerId = NoUser
     /\ inflight[u].code = 200)
    => /\ inflight[v].code = 400
       /\ bookings[inflight[u].id].photographerId = u

\* C4: a request by a caller who is not admin leaves the status of a
\* completed or cancelled booking as it is
C4_TerminalFrozen ==
  (last.op \in NonAdminOps /\ role(last.who) # "admin" /\ Resolved
     /\ Before.status \in Terminal)
  => After.status = Before.status

\* C5: an update by the booking's photographer (not admin) that asks for a
\* status is rejected with 400 and changes nothing unless it asks for
\* confirmed on a pending booking or completed on a confirmed one; completed
\* on a confirmed booking succeeds
C5_PhotographerTransitions ==
  (last.op \in UpdateOps /\ role(last.who) # "admin" /\ Resolved
     /\ Before.photographerId = last.who /\ last.req.status # Absent)
  => IF \/ last.req.status = "confirmed" /\ Before.status = "pending"
        \/ last.req.status = "completed" /\ Before.status = "confirmed"
       THEN (last.req.status = "completed" =>
               last.code = 200 /\ After.status = "completed")
       ELSE last.code = 400 /\ bookings = pre

\* C6: a request of the booking's client (role client) changes the status
\* only to cancelled and only from pending or confirmed
C6_ClientOnlyCancels ==
  (last.op \in NonAdminOps /\ role(last.who) = "client" /\ Resolved
     /\ Before.client = last.who /\ After.status # Before.status)
  => /\ After.status \in {"cancelled", "canceled"}
     /\ Before.status \in {"pending", "confirmed"}

\* the booking's client, not admin, asks for status confirmed and a location
ClientAsksConfirmed ==
  /\ Resolved
  /\ Before.client = last.who /\ role(last.who) # "admin"
  /\ last.req.status = "confirmed" /\ last.req.location # Absent

C8_AdminAnyStatus ==
  (last.op \in {"updateBooking", "setStatus"} /\ role(last.who) = "admin"
     /\ Resolved /\ last.req.status \in StatusENUM)
  => last.code = 200 /\ After.status = last.req.status

\* C9: a request by a caller who is not admin leaves the photographerId of an
\* assigned booking as it is
C9_AssigneeFrozen ==
  (last.op \in NonAdminOps /\ role(last.who) # "admin" /\ Resolved
     /\ Before.photographerId # NoUser)
  => After.photographerId = Before.photographerId

\* the caller is neither the booking's client, nor its photographer, nor admin
Stranger ==
  /\ Resolved
  /\ Before.client # last.who /\ Before.photographerId # last.who
  /\ role(last.who) # "admin"

C11_NoSelfBooking ==
  (last.op \in {"createBooking", "postBooking"} /\ last.req.photographerId = last.who) =>
    last.code # 201 /\ bookings = pre

\* C12: a booking created by a successful createBooking has status pending and
\* no photographer right after its creation, whatever status and photographerId
\* the payload carries
C12_CreatedPendingUnassigned ==
  (last.op \in {"createBooking", "postBooking"} /\ last.code = 201) =>
    /\ After.status = DefaultStatus
    /\ After.photographerId = NoUser

\* C13: cancelling a booking that is already cancelled answers success with the
\* already-cancelled message and writes nothing
C13_CancelIdempotent ==
  (/\ last.op \in {"cancelBooking", "deleteBooking"}
   /\ Resolved
   /\ Before.status \in {"cancelled", "canceled"}
   /\ related(Before, last.who)) =>
    /\ last.code = 200
    /\ last.msg = "Booking was already cancelled"
    /\ bookings = pre

\* C14: cancelling a completed booking answers 400 and leaves it completed for
\* every caller who is not an admin, its client and its photographer included;
\* for an admin it succeeds and the booking is cancelled
C14_CompletedCancelOnlyByAdmin ==
  (/\ last.op \in {"cancelBooking", "deleteBooking"}
   /\ Resolved
   /\ Before.status = "completed"
   /\ related(Before, last.who)) =>
    IF role(last.who) = "admin"
      THEN last.code = 200 /\ After.status \in {"cancelled", "canceled"}
      ELSE last.code = 400 /\ bookings = pre

C17_FailedUpdateWritesNothing ==
  (last.op = "updateBooking" /\ last.code # 200) => bookings = pre

\* C16: a photographer's update to completed is screened against the status
\* the booking holds when the update is written: it succeeds only on a booking
\* that is confirmed at that moment, so a booking cancelled in the meantime
\* never ends completed
C16_CompletionRevalidated ==
  (/\ last.op = "updateBooking" /\ Resolved
   /\ role(last.who) = "photographer"
   /\ last.req.status = "completed"
   /\ last.code = 200) =>
    Before.status = "confirmed"

\* content requests: the id names a row that existed before the request
ResolvedC == lastC.id \in DOMAIN preC /\ preC[lastC.id].kind = lastC.type
BeforeC == preC[lastC.id]
AfterC == content[lastC.id]
FlaggedQuad == <<FALSE, TRUE, "pending", FALSE>>

\* C18: a successful flag leaves the row with isVisible false, needsReview
\* true, status pending and isModerated false and its other fields as they
\* were; after any flag request, failed ones included, the four fields are
\* either all as before or all as flagged
C18_FlagAllOrNothing ==
  (lastC.op = "moderateContent" /\ lastC.action = "flag" /\ ResolvedC) =>
    /\ lastC.code = 200 =>
         /\ Quad(AfterC) = FlaggedQuad
         /\ AfterC.text = BeforeC.text /\ AfterC.owner = BeforeC.owner
    /\ Quad(AfterC) \in {Quad(BeforeC), FlaggedQuad}

C18_Witness ==
  /\ lastC.op = "moderateContent" /\ lastC.action = "flag" /\ ResolvedC
  /\ lastC.code = 200
  /\ Quad(BeforeC) = <<TRUE, FALSE, "approved", TRUE>>
  /\ Quad(AfterC) = FlaggedQuad

\* C19: a flag followed by a restore, with no write to the row in between,
\* leaves the four moderation fields equal to what they were before the flag
C19_FlagRestoreRoundTrip ==
  \A i \in DOMAIN content :
    roundTrip[i].phase = "restored" => Quad(content[i]) = roundTrip[i].from

\* C20: in every state every photo and review is hidden exactly when it needs
\* review
C20_HiddenIffNeedsReview ==
  \A i \in DOMAIN content :
    content[i].kind \in ContentTypes =>
      (content[i].isVisible = FALSE <=> content[i].needsReview = TRUE)

\* C27: an update by the booking's assigned photographer, not admin, changes
\* no field of the booking other than notes and status: location, client and
\* photographerId are as before, whatever the patch contains
C27_AssigneeWritesNotesAndStatus ==
  (/\ last.op \in UpdateOps /\ Resolved
   /\ role(last.who) = "photographer"
   /\ Before.photographerId = last.who) =>
    /\ After.location = Before.location
    /\ After.client = Before.client
    /\ After.photographerId = Before.photographerId

\* C21: a request by a caller who is not admin leaves the four moderation
\* fields of every existing photo and review as they were, and a row it
\* creates has the models' defaults in them
C21_OnlyAdminWritesModeration ==
  (lastC.op # "none" /\ ~isAdminViewer(lastC.who)) =>
    \A i \in DOMAIN content :
      IF i \in DOMAIN preC
        THEN content[i].kind = "destroyed" \/ Quad(content[i]) = Quad(preC[i])
        ELSE Quad(content[i]) = Quad(defaults(content[i].kind, content[i].owner))

\* C23: a moderation request of an admin whose action is not delete, flag or
\* restore, or whose contentType is not review or photo, answers 400, changes
\* no photo or review and adds no ActivityLog entry; it answers 400 also when
\* a lookup would have thrown, so it makes none
C23_InvalidModerationTouchesNothing ==
  (/\ lastC.op = "moderateContent"
   /\ role(lastC.who) = "admin"
   /\ (lastC.action \notin {"delete", "flag", "restore"} \/ lastC.type \notin ContentTypes)) =>
    /\ lastC.code = 400
    /\ content = preC
    /\ lastC.logged = 0

C23_Witness ==
  /\ lastC.op = "moderateContent" /\ role(lastC.who) = "admin"
  /\ lastC.action = "approve" /\ lastC.type = "photo"
  /\ ResolvedC
  /\ lastC.fault = "read"
  /\ lastC.code = 400

\* C24: a flag applied to a photo or review whose four moderation fields are
\* those a flag leaves changes nothing in the row
C24_FlagIdempotent ==
  (/\ lastC.op = "moderateContent" /\ lastC.action = "flag" /\ ResolvedC
   /\ lastC.code = 200
   /\ Quad(BeforeC) = FlaggedQuad) =>
    AfterC = BeforeC

C24_Witness ==
  /\ lastC.op = "moderateContent" /\ lastC.action = "flag" /\ ResolvedC
  /\ lastC.code = 200
  /\ roundTrip[lastC.id].phase = "flagged"
  /\ Quad(BeforeC) = FlaggedQuad
  /\ Quad(AfterC) = FlaggedQuad

\* C25: a photo or review is, right after its creation, visible, not marked
\* for review and approved
C25_CreatedVisibleApproved ==
  (lastC.op \in {"createPhoto", "createReview"} /\ lastC.code = 201) =>
    /\ AfterC.isVisible = TRUE
    /\ AfterC.needsReview = FALSE
    /\ AfterC.status = "approved"

\* C28: moderateContent changes the content only when it answers success: after
\* an error answer (400, 404, 500) the photos and reviews are as before the
\* request, and a success has added exactly one ActivityLog entry
C28_ModerationChangesIffSuccess ==
  lastC.op = "moderateContent" =>
    /\ lastC.code # 200 => content = preC
    /\ lastC.code = 200 => lastC.logged = 1

ReadOps ==
  {"getAllPhotos", "getPhotoById", "getPhotosByCategory", "getPhotoReviews",
   "getAllPhotos_2", "getPhotoById_2", "getPhotosByCategory_2"}

\* the row was flagged by the last write made to it
Flagged(i) == roundTrip[i].phase = "flagged"

\* C22: while a photo is flagged and not restored, no read by a caller who is
\* not admin, signed in or not, returns it
C22_FlaggedPhotoNotReturned ==
  (lastC.op \in ReadOps /\ ~isAdminViewer(lastC.who)) =>
    \A i \in lastC.shown : content[i].kind = "photo" => ~Flagged(i)

\* C29: while a review is flagged and not restored, no read by a caller who is
\* not admin, signed in or not, returns it, neither getPhotoReviews nor a
\* photo response that embeds the photo's reviews
C29_FlaggedReviewNotReturned ==
  (lastC.op \in ReadOps /\ ~isAdminViewer(lastC.who)) =>
    \A i \in lastC.shown : content[i].kind = "review" => ~Flagged(i)

\* C26: a request that carries a token whose logout has succeeded is rejected
\* by the middleware and its route handler does not run, on every route
C26_LoggedOutTokenRejected ==
  lastA.wasOut => ~lastA.handled /\ lastA.code = 401

Active == {i \in DOMAIN about : about[i].isActive}
Quiet == \A q \in AboutRequests : saving[q].phase = "idle"

\* C30: when no about request is under way at most one AboutContent record is
\* active, and when a create or update with makeActive true has been answered
\* with success, no other request is under way and no request has switched
\* its record off since its save, the record it wrote is the active one, also
\* when two such requests interleaved between save and deactivation
C30_OneActiveAbout ==
  Quiet =>
    /\ Cardinality(Active) <= 1
    /\ (lastAb.makeActive /\ lastAb.code \in {200, 201} /\ ~lastAb.off)
         => Active = {lastAb.id}

====
